---- MODULE Spec2Model ----
(***************************************************************************)
(* Model of the backtest engine of mlft (src/mlft/backtest.py) and of the  *)
(* order / position / trade records it works on (src/mlft/strategy.py).    *)
(*                                                                         *)
(* The engine is one constructor: it loads the instruments, calls          *)
(* on_start, then for every bar of the feed runs the resolution pass over  *)
(* the pending-event queue, clears the queue and calls on_bar_data, and at *)
(* the end calls on_stop.  The strategy is any code: inside each callback  *)
(* it may call submit_order and cancel_order any number of times.  The     *)
(* model splits the constructor at the callback boundaries; pc is the      *)
(* position of the constructor.                                            *)
(*                                                                         *)
(* Quantities are whole multiples of the quantity tick (integers); prices, *)
(* market values, fees and profits (Python floats) are exact rationals     *)
(* <<numerator, denominator>>, <<0, 0>> being not-a-number.  Bar k of the  *)
(* feed has last_time k (the feed is in ascending time order).             *)
(***************************************************************************)
EXTENDS Integers, Sequences, FiniteSets, TLC

\* ---------------------------------------------------------------- bounds
MaxBars == 2          \* bars in the feed
MaxOrders == 2        \* orders the strategy gets accepted in a run
MaxQueue == 2         \* events queued at one time
MaxHoldQty == 2       \* max_hold_qty of the instrument of the instrument file

\* ----------------------------------------------------------------- inputs
Quantities == {1, 2}  \* the quantities the strategy asks for
Prices == {1, 2}      \* the last_px of the bars

\* ------------------------------------------------------- program constants
Buy == 0
Sell == 1
IOC == 0
GTC == 1
NoTrade == 0
AlwaysFilled == 1
FillAttempt == 0      \* _Event.event_type of submit_order
CancelRequest == 1    \* _Event.event_type of cancel_order
NoTime == 0           \* None as a time (before the first bar)
NoOrder == 0 - 1      \* the order field of a notification without an order

Direction == {Buy, Sell}
TimeInForce == {IOC, GTC}
MatchAlgorithm == {NoTrade, AlwaysFilled}

\* the instrument of the instrument file, and the instruments of the bar
\* feed: X.B has bars and no position
Instruments == {"X.A"}
FeedInstruments == {"X.A", "X.B"}

Callbacks == {"on_start", "on_order_executed", "on_order_cancelled",
              "on_bar_data", "on_stop"}

\* ------------------------------------------------------ float arithmetic
Abs(x) == IF x < 0 THEN 0 - x ELSE x

Min(a, b) == IF b < a THEN b ELSE a

RECURSIVE GCD(_, _)
GCD(a, b) == IF b = 0 THEN a ELSE GCD(b, a % b)

NaN == <<0, 0>>

IsNaN(a) == a[2] = 0

\* the number n / d in lowest terms, with a positive denominator
Rat(n, d) ==
    IF d = 0 THEN NaN
    ELSE LET s == IF d < 0 THEN 0 - 1 ELSE 1
             g == GCD(Abs(n), Abs(d))
         IN  <<(s * n) \div g, (s * d) \div g>>

Num(n) == <<n, 1>>

FAdd(a, b) == IF IsNaN(a) \/ IsNaN(b) THEN NaN
              ELSE Rat(a[1] * b[2] + b[1] * a[2], a[2] * b[2])

FSub(a, b) == IF IsNaN(a) \/ IsNaN(b) THEN NaN
              ELSE Rat(a[1] * b[2] - b[1] * a[2], a[2] * b[2])

FMul(a, b) == IF IsNaN(a) \/ IsNaN(b) THEN NaN
              ELSE Rat(a[1] * b[1], a[2] * b[2])

FDiv(a, b) == IF IsNaN(a) \/ IsNaN(b) THEN NaN
              ELSE Rat(a[1] * b[2], a[2] * b[1])

\* ------------------------------------------------------------------ state
VARIABLES
    match_algo,     \* config.match_algo
    positions,      \* self._positions: instrument id -> Position
    orders,         \* self._orders: the order log; order_id k is orders[k + 1]
    trades,         \* self._trades: the trade log
    events,         \* self._events: the pending-event queue
    cur_tm,         \* self._cur_tm
    cur_px,         \* self._cur_px: a dict, its keys are DOMAIN cur_px
    pc,             \* where the constructor is: a callback, "loop", "events", "done"
    ins_id,         \* the local ins_id: the instrument of the bar being processed
    ev_idx,         \* the position of `for _ev in self._events` (1-based)
    result,         \* what the strategy's last command returned in this callback
    calls           \* the strategy callbacks invoked so far, in order

vars == <<match_algo, positions, orders, trades, events, cur_tm, cur_px,
          pc, ins_id, ev_idx, result, calls>>

\* ---------------------------------------------------------------- records
InstrumentInfo(i) ==
    [ins_id |-> i, fee_per_qty |-> <<1, 10>>, fee_per_mv |-> <<1, 10000>>]

Position(i, max_hold) ==
    [instrument |-> InstrumentInfo(i),
     max_hold_qty |-> max_hold,
     hold_qty |-> 0,
     hold_mv |-> Num(0),
     pending_qty |-> [d \in Direction |-> 0],
     real_profit |-> Num(0),
     fee |-> Num(0)]

\* Order(...) with __post_init__: pend_qty = orig_qty
Order(id, ins, dir, tif, qty, tm) ==
    [order_id |-> id,
     position |-> ins,
     direction |-> dir,
     tif |-> tif,
     orig_qty |-> qty,
     pend_qty |-> qty,
     exec_qty |-> 0,
     insert_time |-> tm,
     last_time |-> NoTime]

Trade(id, order, tm, px, qty, fee, profit) ==
    [trade_id |-> id, order |-> order, time |-> tm, px |-> px, qty |-> qty,
     fee |-> fee, profit |-> profit]

Event(type, order) == [event_type |-> type, order |-> order]

\* one invocation of a strategy callback: ev is the queue position of the
\* event that caused it (0 when no event did)
Call(cb, order, ev) == [cb |-> cb, order |-> order, ev |-> ev, tm |-> cur_tm]

OrderOf(id) == orders[id + 1]

\* ------------------------------------------------------------------- Init
Init ==
    /\ match_algo \in MatchAlgorithm
    /\ positions = [i \in Instruments |-> Position(i, MaxHoldQty)]
    /\ orders = <<>>
    /\ trades = <<>>
    /\ events = <<>>
    /\ cur_tm = NoTime
    /\ cur_px = [i \in {} |-> NaN]
    /\ pc = "on_start"
    /\ ins_id = ""
    /\ ev_idx = 0
    /\ result = ""
    /\ calls = <<[cb |-> "on_start", order |-> NoOrder, ev |-> 0, tm |-> NoTime]>>

\* ------------------------------------------------- strategy commands impl
\* <<the position>>, or <<>> for None
find_position(i) == IF i \in DOMAIN positions THEN <<positions[i]>> ELSE <<>>

\* max_qty, the pending orders not counted
max_qty_NoPending(pos, dir) ==
    IF dir = Buy
    THEN pos.max_hold_qty - pos.hold_qty
    ELSE pos.max_hold_qty + pos.hold_qty

\* max_qty, the holding taken off the capacity for sales as it is for purchases
max_qty_SellSign(pos, dir) ==
    pos.max_hold_qty - pos.hold_qty - pos.pending_qty[dir]

\* the capacity left under the position's risk settings
max_qty(pos, dir) ==
    IF dir = Buy
    THEN pos.max_hold_qty - pos.hold_qty - pos.pending_qty[dir]
    ELSE pos.max_hold_qty + pos.hold_qty - pos.pending_qty[dir]

\* ClampQty, the quantity not clamped to the capacity
ClampQty_Unclamped(pos, dir, qty) == qty

\* qty = min(qty, max_qty)
ClampQty(pos, dir, qty) == Min(qty, max_qty(pos, dir))

\* ins_pos.pending_qty[dir] += qty
AddPending(pos, dir, qty) == [pos EXCEPT !.pending_qty[dir] = @ + qty]

\* a command that returns without touching the engine
Returns(ret) ==
    /\ result' = ret
    /\ UNCHANGED <<match_algo, positions, orders, trades, events, cur_tm,
                   cur_px, pc, ins_id, ev_idx, calls>>

Accept(i, dir, qty, tif) ==
    /\ Len(orders) < MaxOrders
    /\ Len(events) < MaxQueue
    /\ orders' = Append(orders, Order(Len(orders), i, dir, tif, qty, cur_tm))
    /\ positions' = [positions EXCEPT ![i] = AddPending(@, dir, qty)]
    /\ events' = Append(events, Event(FillAttempt, Len(orders)))
    /\ result' = "Order"
    /\ UNCHANGED <<match_algo, trades, cur_tm, cur_px, pc, ins_id, ev_idx, calls>>

submit_order(i, dir, qty, tif) ==
    /\ pc \in Callbacks
    /\ IF find_position(i) = <<>>
       THEN Returns("None")
       ELSE IF ClampQty(positions[i], dir, qty) <= 0
            THEN Returns("None")
            ELSE Accept(i, dir, ClampQty(positions[i], dir, qty), tif)

\* NotCancellable, the time in force not looked at
NotCancellable_AnyTif(o) == o.pend_qty = 0

\* order.pend_qty == 0 or order.tif == TimeInForce.IOC
NotCancellable(o) == o.pend_qty = 0 \/ o.tif = IOC

cancel_order(id) ==
    /\ pc \in Callbacks
    /\ IF NotCancellable(OrderOf(id))
       THEN Returns("False")
       ELSE /\ Len(events) < MaxQueue
            /\ events' = Append(events, Event(CancelRequest, id))
            /\ result' = "True"
            /\ UNCHANGED <<match_algo, positions, orders, trades, cur_tm,
                           cur_px, pc, ins_id, ev_idx, calls>>

\* the strategy callback returns to the constructor
Return ==
    /\ pc \in Callbacks
    /\ pc' = CASE pc = "on_start" -> "loop"
               [] pc = "on_order_executed" -> "events"
               [] pc = "on_order_cancelled" -> "events"
               [] pc = "on_bar_data" -> "loop"
               [] pc = "on_stop" -> "done"
    /\ ev_idx' = IF pc \in {"on_order_executed", "on_order_cancelled"}
                 THEN ev_idx + 1 ELSE ev_idx
    /\ result' = ""
    /\ UNCHANGED <<match_algo, positions, orders, trades, events, cur_tm,
                   cur_px, ins_id, calls>>

\* ------------------------------------------------------------ the bar loop
\* the next bar of the feed: its instrument and last_px
NextBar(i, px) ==
    /\ pc = "loop"
    /\ cur_tm < MaxBars
    /\ ins_id' = i
    /\ cur_tm' = cur_tm + 1
    /\ cur_px' = [k \in DOMAIN cur_px \cup {i} |-> IF k = i THEN Num(px) ELSE cur_px[k]]
    /\ ev_idx' = 1
    /\ pc' = "events"
    /\ UNCHANGED <<match_algo, positions, orders, trades, events, result, calls>>

\* the feed is exhausted: strategy.on_stop()
EndOfFeed ==
    /\ pc = "loop"
    /\ pc' = "on_stop"
    /\ calls' = Append(calls, Call("on_stop", NoOrder, 0))
    /\ UNCHANGED <<match_algo, positions, orders, trades, events, cur_tm,
                   cur_px, ins_id, ev_idx, result>>

\* ------------------------------------------------------ the resolution pass
InPass == pc = "events" /\ ev_idx <= Len(events)

CurEvent == events[ev_idx]

CurOrder == OrderOf(CurEvent.order)

\* the price a fill is made at
FillPx == IF ins_id \in DOMAIN cur_px THEN cur_px[ins_id] ELSE NaN

\* Cancelled, the pending quantity kept
Cancelled_PendKept(o, tm) == [o EXCEPT !.last_time = tm]

\* Cancelled, the time of the cancellation not recorded
Cancelled_NoLastTime(o, tm) == [o EXCEPT !.pend_qty = 0]

\* the order after a cancellation at time tm
Cancelled(o, tm) == [o EXCEPT !.last_time = tm, !.pend_qty = 0]

\* Executed, the executed quantity forgotten
Executed_NoExecQty(o, qty, tm) == [o EXCEPT !.last_time = tm, !.pend_qty = 0]

\* the order after the fill of its remaining quantity at time tm
Executed(o, qty, tm) ==
    [o EXCEPT !.last_time = tm, !.exec_qty = qty, !.pend_qty = 0]

\* ReleasePending, the capacity kept
ReleasePending_Kept(pos, dir, qty) == pos

\* ev_pos.pending_qty[_ev.order.direction] -= ev_qty
ReleasePending(pos, dir, qty) == [pos EXCEPT !.pending_qty[dir] = @ - qty]

\* the quantity of the fill that closes the open position
CloseQty(pos, dir, qty) ==
    IF dir = Buy
    THEN IF pos.hold_qty < 0 THEN Min(0 - pos.hold_qty, qty) ELSE 0
    ELSE IF pos.hold_qty > 0 THEN Min(pos.hold_qty, qty) ELSE 0

\* Profit, a purchase that closes a short valued like a sale that closes a long
Profit_SaleFormula(pos, dir, qty, px) ==
    IF CloseQty(pos, dir, qty) = 0 THEN Num(0)
    ELSE FMul(FSub(px, FDiv(pos.hold_mv, Num(pos.hold_qty))),
              Num(CloseQty(pos, dir, qty)))

\* the profit the fill realises
Profit(pos, dir, qty, px) ==
    IF dir = Buy
    THEN IF pos.hold_qty < 0
         THEN FMul(FSub(FDiv(pos.hold_mv, Num(pos.hold_qty)), px),
                   Num(CloseQty(pos, dir, qty)))
         ELSE Num(0)
    ELSE IF pos.hold_qty > 0
         THEN FMul(FSub(px, FDiv(pos.hold_mv, Num(pos.hold_qty))),
                   Num(CloseQty(pos, dir, qty)))
         ELSE Num(0)

\* ShrunkMv, the cost basis of the closed part kept
ShrunkMv_NotShrunk(pos, dir, qty) == pos.hold_mv

\* hold_mv after the closed fraction of the position is taken out of it
ShrunkMv(pos, dir, qty) ==
    IF dir = Buy
    THEN IF pos.hold_qty < 0
         THEN FMul(pos.hold_mv,
                   FSub(Num(1), FDiv(Num(CloseQty(pos, dir, qty)), Num(0 - pos.hold_qty))))
         ELSE pos.hold_mv
    ELSE IF pos.hold_qty > 0
         THEN FMul(pos.hold_mv,
                   FSub(Num(1), FDiv(Num(CloseQty(pos, dir, qty)), Num(pos.hold_qty))))
         ELSE pos.hold_mv

\* Hold, the opening part of a sale added to hold_mv like that of a purchase
Hold_AlwaysAdds(pos, dir, qty, px) ==
    [pos EXCEPT
        !.hold_qty = IF dir = Buy THEN @ + qty ELSE @ - qty,
        !.hold_mv = FAdd(ShrunkMv(pos, dir, qty),
                         FMul(Num(qty - CloseQty(pos, dir, qty)), px))]

\* Hold, the whole fill valued as an opening, the closing part included
Hold_OpensWholeQty(pos, dir, qty, px) ==
    IF dir = Buy
    THEN [pos EXCEPT
            !.hold_qty = @ + qty,
            !.hold_mv = FAdd(ShrunkMv(pos, dir, qty), FMul(Num(qty), px))]
    ELSE [pos EXCEPT
            !.hold_qty = @ - qty,
            !.hold_mv = FSub(ShrunkMv(pos, dir, qty), FMul(Num(qty), px))]

\* hold_qty and hold_mv after the fill
Hold(pos, dir, qty, px) ==
    IF dir = Buy
    THEN [pos EXCEPT
            !.hold_qty = @ + qty,
            !.hold_mv = FAdd(ShrunkMv(pos, dir, qty),
                             FMul(Num(qty - CloseQty(pos, dir, qty)), px))]
    ELSE [pos EXCEPT
            !.hold_qty = @ - qty,
            !.hold_mv = FSub(ShrunkMv(pos, dir, qty),
                             FMul(Num(qty - CloseQty(pos, dir, qty)), px))]

\* Fee, the charge on the traded value left out
Fee_PerQtyOnly(pos, qty, px) == FMul(Num(qty), pos.instrument.fee_per_qty)

\* ev_qty * fee_per_qty + ev_qty * ev_px * fee_per_mv
Fee(pos, qty, px) ==
    FAdd(FMul(Num(qty), pos.instrument.fee_per_qty),
         FMul(FMul(Num(qty), px), pos.instrument.fee_per_mv))

\* the position after the fill of qty at px
Filled(pos, dir, qty, px) ==
    [Hold(ReleasePending(pos, dir, qty), dir, qty, px) EXCEPT
        !.fee = FAdd(@, Fee(pos, qty, px)),
        !.real_profit = FAdd(@, Profit(pos, dir, qty, px))]

\* Resolved, an event never skipped
Resolved_Never(o) == FALSE

\* if _ev.order.pend_qty <= 0: continue
Resolved(o) == o.pend_qty <= 0

SkipEvent ==
    /\ InPass
    /\ Resolved(CurOrder)
    /\ ev_idx' = ev_idx + 1
    /\ UNCHANGED <<match_algo, positions, orders, trades, events, cur_tm,
                   cur_px, pc, ins_id, result, calls>>

\* a fill attempt under AlwaysFilled
FillOrder ==
    /\ InPass
    /\ ~Resolved(CurOrder)
    /\ CurEvent.event_type = FillAttempt
    /\ match_algo = AlwaysFilled
    /\ LET o == CurOrder
           ev_pos == positions[o.position]
           ev_qty == o.pend_qty
           ev_px == FillPx
       IN  /\ orders' = [orders EXCEPT ![o.order_id + 1] = Executed(o, ev_qty, cur_tm)]
           /\ positions' = [positions EXCEPT
                              ![o.position] = Filled(ev_pos, o.direction, ev_qty, ev_px)]
           /\ trades' = Append(trades,
                               Trade(Len(trades), o.order_id, cur_tm, ev_px, ev_qty,
                                     Fee(ev_pos, ev_qty, ev_px),
                                     Profit(ev_pos, o.direction, ev_qty, ev_px)))
           /\ calls' = Append(calls, Call("on_order_executed", o.order_id, ev_idx))
    /\ pc' = "on_order_executed"
    /\ UNCHANGED <<match_algo, events, cur_tm, cur_px, ins_id, ev_idx, result>>

\* the order of the current event is cancelled
CancelCurOrder ==
    LET o == CurOrder
    IN  /\ orders' = [orders EXCEPT ![o.order_id + 1] = Cancelled(o, cur_tm)]
        /\ positions' = [positions EXCEPT
                           ![o.position] = ReleasePending(@, o.direction, o.pend_qty)]
        /\ calls' = Append(calls, Call("on_order_cancelled", o.order_id, ev_idx))
        /\ pc' = "on_order_cancelled"
        /\ UNCHANGED <<match_algo, trades, events, cur_tm, cur_px, ins_id,
                       ev_idx, result>>

\* a fill attempt on an immediate-or-cancel order when nothing trades
CancelIOC ==
    /\ InPass
    /\ ~Resolved(CurOrder)
    /\ CurEvent.event_type = FillAttempt
    /\ match_algo # AlwaysFilled
    /\ CurOrder.tif = IOC
    /\ CancelCurOrder

\* a fill attempt on a good-till-cancel order when nothing trades
NoAction ==
    /\ InPass
    /\ ~Resolved(CurOrder)
    /\ CurEvent.event_type = FillAttempt
    /\ match_algo # AlwaysFilled
    /\ CurOrder.tif # IOC
    /\ orders' = [orders EXCEPT ![CurOrder.order_id + 1].last_time = cur_tm]
    /\ ev_idx' = ev_idx + 1
    /\ UNCHANGED <<match_algo, positions, trades, events, cur_tm, cur_px,
                   pc, ins_id, result, calls>>

\* a cancel request
CancelEvent ==
    /\ InPass
    /\ ~Resolved(CurOrder)
    /\ CurEvent.event_type = CancelRequest
    /\ CancelCurOrder

\* Cleared, the queue kept for the next pass
Cleared_Kept(q) == q

\* the queue after the pass
Cleared(q) == <<>>

\* the loop over the queue is over: self._events.clear(), then on_bar_data
EndPass ==
    /\ pc = "events"
    /\ ev_idx > Len(events)
    /\ events' = Cleared(events)
    /\ calls' = Append(calls, Call("on_bar_data", NoOrder, 0))
    /\ pc' = "on_bar_data"
    /\ UNCHANGED <<match_algo, positions, orders, trades, cur_tm, cur_px,
                   ins_id, ev_idx, result>>

\* ------------------------------------------------------------------- Next
Next ==
    \/ \E i \in FeedInstruments, dir \in Direction, qty \in Quantities,
          tif \in TimeInForce : submit_order(i, dir, qty, tif)
    \/ \E id \in 0..(Len(orders) - 1) : cancel_order(id)
    \/ Return
    \/ \E i \in FeedInstruments, px \in Prices : NextBar(i, px)
    \/ EndOfFeed
    \/ SkipEvent
    \/ FillOrder
    \/ CancelIOC
    \/ NoAction
    \/ CancelEvent
    \/ EndPass

Spec == Init /\ [][Next]_vars

\* ================================================================= claims
Orders == 1..Len(orders)

Trades == 1..Len(trades)

Calls == 1..Len(calls)

\* on_order_cancelled was invoked for the order
WasCancelled(id) ==
    \E c \in Calls : calls[c].cb = "on_order_cancelled" /\ calls[c].order = id

\* a trade of the order is in the trade log
WasExecuted(id) == \E t \in Trades : trades[t].order = id

\* ----------------------------------------------------------------- C1
\* C1 as stated: for every order of the order log, in every reachable
\* state, pend_qty + exec_qty = orig_qty.
C1_Original ==
    \A k \in Orders : orders[k].pend_qty + orders[k].exec_qty = orders[k].orig_qty

\* C1 (amended): pend_qty + exec_qty = orig_qty holds for every order that
\* has not been cancelled (after submit_order and after a fill); an order
\* cancelled by a cancel event, or as an IOC order under NoTrade, has
\* pend_qty = 0 and exec_qty = 0, its orig_qty unchanged and positive.
C1_Conservation ==
    \A k \in Orders :
        IF WasCancelled(orders[k].order_id)
        THEN orders[k].pend_qty = 0 /\ orders[k].exec_qty = 0 /\ orders[k].orig_qty > 0
        ELSE orders[k].pend_qty + orders[k].exec_qty = orders[k].orig_qty

\* an order was filled for its whole quantity while another one still waits
C1_Witness ==
    \E k, m \in Orders :
        /\ WasExecuted(orders[k].order_id)
        /\ orders[k].exec_qty = 2 /\ orders[k].pend_qty = 0
        /\ orders[m].pend_qty = orders[m].orig_qty /\ orders[m].exec_qty = 0

\* ----------------------------------------------------------------- C2
RECURSIVE PendSum(_, _, _)
\* the sum of pend_qty over the first k orders of position i and direction d
PendSum(k, i, d) ==
    IF k = 0 THEN 0
    ELSE PendSum(k - 1, i, d)
         + (IF orders[k].position = i /\ orders[k].direction = d
            THEN orders[k].pend_qty ELSE 0)

\* C2: in every state (after any resolution pass and any submissions,
\* cancellations and fills), for every position and direction,
\* pending_qty[direction] is the sum of pend_qty over all orders of the order
\* log of that position and direction, orphaned ones included.
C2_PendingIsSum ==
    \A i \in DOMAIN positions : \A d \in Direction :
        positions[i].pending_qty[d] = PendSum(Len(orders), i, d)

\* after a pass: one order was cancelled, another was attempted and no
\* queued event refers to it any more, and its quantity is still counted
C2_Witness ==
    /\ pc = "on_bar_data"
    /\ events = <<>>
    /\ \E k, m \in Orders :
        /\ WasCancelled(orders[k].order_id)
        /\ orders[m].last_time # NoTime
        /\ orders[m].pend_qty = 2
        /\ positions[orders[m].position].pending_qty[orders[m].direction] = 2

\* ----------------------------------------------------------------- C3
\* C3: in every reachable state, a position with hold_qty = 0 has
\* hold_mv = 0, also after a fill that exactly closes a long or short one.
C3_FlatHasNoMv ==
    \A i \in DOMAIN positions :
        positions[i].hold_qty = 0 => positions[i].hold_mv = Num(0)

\* a position opened at one price was closed exactly by a fill at another
C3_Witness ==
    /\ Len(trades) = 2
    /\ trades[1].qty = trades[2].qty
    /\ trades[1].px # trades[2].px
    /\ OrderOf(trades[1].order).direction # OrderOf(trades[2].order).direction
    /\ positions["X.A"].hold_qty = 0
    /\ positions["X.A"].real_profit # Num(0)

\* ----------------------------------------------------------------- C4
\* the last_px last observed for the instrument, not-a-number when none was
LastPxOf(i) == IF i \in DOMAIN cur_px THEN cur_px[i] ELSE NaN

\* C4: under AlwaysFilled the price of a Trade is the last last_px observed
\* for the order's own instrument, whichever instrument the bar that
\* triggers the pass belongs to, and not-a-number when no bar of the order's
\* instrument has been observed (checked when the fill is notified, within
\* the bar of the fill).
C4_FillAtOwnPx ==
    (match_algo = AlwaysFilled /\ pc = "on_order_executed") =>
        trades[Len(trades)].px = LastPxOf(OrderOf(trades[Len(trades)].order).position)

\* ----------------------------------------------------------------- C5
TradesOf(id) == {t \in Trades : trades[t].order = id}

\* the pass of a bar after the one the order was submitted in is over
PassedSince(o) ==
    cur_tm > o.insert_time /\ pc \in {"on_bar_data", "loop", "on_stop", "done"}

\* C5: under AlwaysFilled every accepted order is filled in full in the pass
\* of the bar that follows the bar it was submitted in: once that pass is
\* over it has pend_qty = 0 and exec_qty = orig_qty, and its one Trade has
\* quantity orig_qty and the time of that bar; no order has a Trade of
\* another bar.
C5_FilledNextBar ==
    match_algo = AlwaysFilled =>
        \A k \in Orders :
            /\ PassedSince(orders[k]) =>
                /\ orders[k].pend_qty = 0
                /\ orders[k].exec_qty = orders[k].orig_qty
                /\ Cardinality(TradesOf(orders[k].order_id)) = 1
            /\ \A t \in TradesOf(orders[k].order_id) :
                /\ trades[t].qty = orders[k].orig_qty
                /\ trades[t].time = orders[k].insert_time + 1

\* ----------------------------------------------------------------- C6
\* C6: the event a command enqueues is not resolved in the pass that runs
\* when the command is issued, nor before the next bar: an order changes
\* (pend_qty, exec_qty, a Trade) only in the pass of a bar later than the
\* one it was submitted in, also when it was submitted from
\* on_order_executed or on_order_cancelled.
C6_ResolvedInLaterBar ==
    /\ \A k \in Orders :
        orders[k].pend_qty # orders[k].orig_qty
            => orders[k].last_time > orders[k].insert_time
    /\ \A t \in Trades : trades[t].time > OrderOf(trades[t].order).insert_time

\* ----------------------------------------------------------------- C7
\* the events the loop over the queue has still to take
Left(p, n, q) == IF p = "events" THEN Len(q) - n + 1 ELSE Len(q) - n

PassStates == {"events", "on_order_executed", "on_order_cancelled"}

\* C7: the resolution pass of a bar terminates whatever the strategy does
\* in its callbacks: while the pass runs, no step adds to the events the
\* loop has still to take, so the pass ends after the events queued when
\* the bar arrived.
C7_PassNeverGrows ==
    [][(pc \in PassStates /\ pc' \in PassStates)
         => Left(pc', ev_idx', events') <= Left(pc, ev_idx, events)]_vars

\* ----------------------------------------------------------------- C8
\* a good-till-cancel order that had its resolution attempt under NoTrade
Orphaned(o) ==
    /\ match_algo = NoTrade
    /\ o.tif = GTC
    /\ o.last_time # NoTime
    /\ o.pend_qty = o.orig_qty

\* C8 as stated: under NoTrade a good-till-cancel order that has received
\* its resolution attempt keeps pend_qty = orig_qty and its quantity in
\* pending_qty[direction] in every later state.
C8_Original ==
    [][\A k \in Orders :
         Orphaned(orders[k]) =>
            /\ orders'[k].pend_qty = orders[k].orig_qty
            /\ positions'[orders[k].position].pending_qty[orders[k].direction]
                 >= orders[k].orig_qty]_vars

\* the step resolves a cancel request for order k, which releases its quantity
CancelsOrder(k) ==
    /\ InPass
    /\ CurEvent.event_type = CancelRequest
    /\ CurEvent.order = orders[k].order_id
    /\ orders'[k].pend_qty = 0
    /\ positions'[orders[k].position].pending_qty[orders[k].direction]
         = positions[orders[k].position].pending_qty[orders[k].direction]
           - orders[k].orig_qty
    /\ pc' = "on_order_cancelled"

\* C8 (amended): under NoTrade a good-till-cancel order that has received
\* its resolution attempt stays as it is, pend_qty = orig_qty and its
\* quantity counted in pending_qty[direction], until a cancel event for it
\* is resolved: no other event and no pass changes it, and a cancel event
\* for it (cancel_order accepts the order) sets pend_qty to 0 and releases
\* its capacity.
C8_OrphanUntilCancelled ==
    [][\A k \in Orders :
         Orphaned(orders[k]) =>
            \/ /\ orders'[k] = orders[k]
               /\ positions'[orders[k].position].pending_qty[orders[k].direction]
                    >= orders[k].orig_qty
            \/ CancelsOrder(k)]_vars

\* an order attempted at bar 1 is as it was after the pass of bar 2
C8_Witness ==
    /\ pc = "on_bar_data"
    /\ cur_tm = 2
    /\ \E k \in Orders :
        /\ Orphaned(orders[k])
        /\ orders[k].last_time = 1
        /\ positions[orders[k].position].pending_qty[orders[k].direction]
             = orders[k].orig_qty

\* ----------------------------------------------------------------- C9
\* the notifications of events and bars
Notes == {c \in Calls : calls[c].cb \in {"on_order_executed", "on_order_cancelled",
                                           "on_bar_data"}}

\* the bars whose on_bar_data was due: all but the one whose pass runs
BarsDelivered == IF pc \in PassStates THEN cur_tm - 1 ELSE cur_tm

\* C9: for every bar, the on_order_executed / on_order_cancelled
\* notifications of the events queued for it are invoked in queue order and
\* before its on_bar_data; on_bar_data is invoked once per bar, and the
\* queue is empty when it is invoked (result = "": no command was issued in
\* the callback yet).
C9_NotificationOrder ==
    /\ \A c, e \in Notes :
        c < e =>
            /\ calls[c].tm <= calls[e].tm
            /\ calls[c].cb = "on_bar_data" => calls[c].tm < calls[e].tm
            /\ (calls[c].cb # "on_bar_data" /\ calls[e].cb # "on_bar_data"
                /\ calls[c].tm = calls[e].tm) => calls[c].ev < calls[e].ev
    /\ \A b \in 1..BarsDelivered :
        Cardinality({c \in Calls : calls[c].cb = "on_bar_data" /\ calls[c].tm = b}) = 1
    /\ \A k \in Orders :
        (orders[k].pend_qty = 0 /\ pc \notin PassStates) =>
            \E c \in Notes : /\ calls[c].order = orders[k].order_id
                             /\ calls[c].tm = orders[k].last_time
    /\ (pc = "on_bar_data" /\ result = "") => events = <<>>

\* on_bar_data is entered after two notifications of the bar's pass
C9_Witness ==
    /\ pc = "on_bar_data"
    /\ result = ""
    /\ Len(calls) >= 3
    /\ calls[Len(calls)].cb = "on_bar_data"
    /\ calls[Len(calls) - 1].cb = "on_order_cancelled"
    /\ calls[Len(calls) - 1].ev = 2
    /\ calls[Len(calls) - 2].cb = "on_order_cancelled"
    /\ calls[Len(calls) - 2].tm = cur_tm

\* ---------------------------------------------------------------- C10
\* the capacity of a position for a new order of a direction
Capacity(i, dir) ==
    IF dir = Buy
    THEN positions[i].max_hold_qty - positions[i].hold_qty
         - positions[i].pending_qty[Buy]
    ELSE positions[i].max_hold_qty + positions[i].hold_qty
         - positions[i].pending_qty[Sell]

\* C10: submit_order on a tracked instrument creates an order with
\* orig_qty = pend_qty = min(requested qty, capacity) and adds that amount
\* to pending_qty[direction]; it returns no order, and creates none, when
\* that minimum is <= 0.
C10_SubmitClamps ==
    [][\A i \in Instruments, dir \in Direction, qty \in Quantities,
          tif \in TimeInForce :
         submit_order(i, dir, qty, tif) =>
            IF Min(qty, Capacity(i, dir)) <= 0
            THEN result' = "None" /\ orders' = orders /\ positions' = positions
            ELSE /\ result' = "Order"
                 /\ Len(orders') = Len(orders) + 1
                 /\ orders'[Len(orders')].orig_qty = Min(qty, Capacity(i, dir))
                 /\ orders'[Len(orders')].pend_qty = Min(qty, Capacity(i, dir))
                 /\ orders'[Len(orders')].direction = dir
                 /\ positions'[i].pending_qty[dir]
                      = positions[i].pending_qty[dir] + Min(qty, Capacity(i, dir))]_vars

\* max_hold_qty = 2, hold_qty = 0: two buys of 1 were accepted before any
\* resolution, and a further submission returned no order
C10_Witness ==
    /\ Len(orders) = 2
    /\ \A k \in Orders : /\ orders[k].direction = Buy
                         /\ orders[k].orig_qty = 1
                         /\ orders[k].pend_qty = 1
                         /\ orders[k].last_time = NoTime
    /\ positions["X.A"].hold_qty = 0
    /\ positions["X.A"].pending_qty[Buy] = positions["X.A"].max_hold_qty
    /\ Capacity("X.A", Buy) = 0
    /\ result = "None"

\* ---------------------------------------------------------------- C11
\* C11: a submit_order call that is rejected (the instrument has no
\* position, or the clamped quantity is <= 0) returns no order and leaves
\* the order log, the event queue, every position (pending_qty, hold_qty,
\* hold_mv) and the trade log unchanged.
C11_RejectedChangesNothing ==
    [][\A i \in FeedInstruments, dir \in Direction, qty \in Quantities,
          tif \in TimeInForce :
         (/\ submit_order(i, dir, qty, tif)
          /\ \/ i \notin Instruments
             \/ Min(qty, Capacity(i, dir)) <= 0)
            => /\ result' = "None"
               /\ orders' = orders
               /\ events' = events
               /\ positions' = positions
               /\ trades' = trades]_vars

\* a submission was rejected while the position is long at its cap and the
\* queue holds an event
C11_Witness ==
    /\ result = "None"
    /\ positions["X.A"].hold_qty = positions["X.A"].max_hold_qty
    /\ Capacity("X.A", Buy) = 0
    /\ Len(events) = 1
    /\ Len(trades) = 1

\* ---------------------------------------------------------------- C12
\* C12: cancel_order returns false, enqueues nothing and changes nothing
\* when the order is immediate-or-cancel or has pend_qty = 0; otherwise it
\* appends one cancel event for the order to the queue, returns true, and
\* changes neither the orders nor the positions nor the trade log.
C12_CancelOrder ==
    [][\A id \in 0..(Len(orders) - 1) :
         cancel_order(id) =>
            IF OrderOf(id).tif = IOC \/ OrderOf(id).pend_qty = 0
            THEN /\ result' = "False"
                 /\ events' = events
                 /\ orders' = orders
                 /\ positions' = positions
                 /\ trades' = trades
            ELSE /\ result' = "True"
                 /\ events' = events \o <<[event_type |-> CancelRequest, order |-> id]>>
                 /\ orders' = orders
                 /\ positions' = positions
                 /\ trades' = trades]_vars

\* a cancel request for a pending good-till-cancel order was queued
C12_Witness ==
    /\ result = "True"
    /\ Len(events) = 2
    /\ events[2].event_type = CancelRequest
    /\ OrderOf(events[2].order).tif = GTC
    /\ OrderOf(events[2].order).pend_qty = 2
    /\ OrderOf(events[2].order).last_time # NoTime

\* ---------------------------------------------------------------- C13
\* the part of a fill of q in direction dir that closes a holding of hold
ClosedQty(hold, dir, q) ==
    IF dir = Buy /\ hold < 0 THEN Min(0 - hold, q)
    ELSE IF dir = Sell /\ hold > 0 THEN Min(hold, q)
    ELSE 0

\* mv with the fraction c / |hold| taken out of it
ShrunkByClosed(mv, hold, c) ==
    IF c = 0 THEN mv ELSE FMul(mv, FSub(Num(1), Rat(c, Abs(hold))))

\* the position of the order the pass is at
CurPos == positions[CurOrder.position]

\* the price of the trade the step appends
NewPx == trades'[Len(trades')].px

\* the opening part of the fill the step makes, at the price of its trade
OpenedMv ==
    FMul(Num(CurOrder.pend_qty
               - ClosedQty(CurPos.hold_qty, CurOrder.direction, CurOrder.pend_qty)),
         NewPx)

\* hold_mv of the position before the fill, the closed fraction taken out
KeptMv ==
    ShrunkByClosed(CurPos.hold_mv, CurPos.hold_qty,
                   ClosedQty(CurPos.hold_qty, CurOrder.direction, CurOrder.pend_qty))

\* C13 as stated: on a fill of q at p, in either direction, hold_mv becomes
\* the prior hold_mv shrunk by the closed fraction plus (q - close_qty) * p,
\* the opening part being added (a long position sold through to a short
\* one ends with a positive hold_mv).
C13_Original ==
    [][FillOrder =>
         positions'[CurOrder.position].hold_mv = FAdd(KeptMv, OpenedMv)]_vars

\* long 3 at an average cost of 50, a sale of 5 at 60: 3 are closed with a
\* profit of 30, hold_qty becomes -2 and hold_mv -120
C13_Example ==
    LET pos == [Position("X.A", 5) EXCEPT !.hold_qty = 3, !.hold_mv = Num(150)]
    IN  /\ CloseQty(pos, Sell, 5) = 3
        /\ Profit(pos, Sell, 5, Num(60)) = Num(30)
        /\ Hold(pos, Sell, 5, Num(60)).hold_qty = 0 - 2
        /\ Hold(pos, Sell, 5, Num(60)).hold_mv = Num(0 - 120)

\* C13: on a fill of q at p, hold_mv becomes the prior hold_mv shrunk by the
\* closed fraction, plus (q - close_qty) * p for a purchase and minus
\* (q - close_qty) * p for a sale: hold_mv is signed like hold_qty.  hold_qty
\* moves by q in the direction of the fill.
C13_SignedMv ==
    [][FillOrder =>
         /\ C13_Example
         /\ positions'[CurOrder.position].hold_qty =
              IF CurOrder.direction = Buy
              THEN CurPos.hold_qty + CurOrder.pend_qty
              ELSE CurPos.hold_qty - CurOrder.pend_qty
         /\ positions'[CurOrder.position].hold_mv =
              IF CurOrder.direction = Buy
              THEN FAdd(KeptMv, OpenedMv)
              ELSE FSub(KeptMv, OpenedMv)]_vars

\* a long position of 1 bought at 1 was sold through by a sale of 2 at 2:
\* 1 closed with a profit of 1, the position is short 1 with hold_mv = -2
C13_Witness ==
    /\ Len(trades) = 2
    /\ OrderOf(trades[1].order).direction = Buy
    /\ trades[1].qty = 1 /\ trades[1].px = Num(1)
    /\ OrderOf(trades[2].order).direction = Sell
    /\ trades[2].qty = 2 /\ trades[2].px = Num(2)
    /\ trades[2].profit = Num(1)
    /\ positions["X.A"].hold_qty = 0 - 1
    /\ positions["X.A"].hold_mv = Num(0 - 2)

\* ---------------------------------------------------------------- C14
\* the sum of the fees of the first k trades that are trades of position i
RECURSIVE FeeSum(_, _)
FeeSum(i, k) ==
    IF k = 0 THEN Num(0)
    ELSE IF OrderOf(trades[k].order).position = i
         THEN FAdd(FeeSum(i, k - 1), trades[k].fee)
         ELSE FeeSum(i, k - 1)

\* q * fee_per_qty + q * p * fee_per_mv at the rates of instrument i
FeeOf(i, q, p) ==
    FAdd(FMul(Num(q), positions[i].instrument.fee_per_qty),
         FMul(FMul(Num(q), p), positions[i].instrument.fee_per_mv))

\* C14: every Trade carries fee = q * fee_per_qty + q * p * fee_per_mv at
\* the rates of its instrument (0.33 for q = 3, p = 100 and the rates 0.1
\* and 0.0001), and the cumulative fee of each position is the sum of the
\* fees of all its Trades.
C14_Fees ==
    /\ \A t \in Trades :
         trades[t].fee = FeeOf(OrderOf(trades[t].order).position,
                               trades[t].qty, trades[t].px)
    /\ \A i \in DOMAIN positions : positions[i].fee = FeeSum(i, Len(trades))
    /\ \A i \in DOMAIN positions :
         /\ positions[i].instrument.fee_per_qty = Rat(1, 10)
         /\ positions[i].instrument.fee_per_mv = Rat(1, 10000)
         /\ Fee(positions[i], 3, Num(100)) = Rat(33, 100)

\* two trades of different fees were charged to the position: 1 at 1 costs
\* 0.1001, 2 at 2 costs 0.2004
C14_Witness ==
    /\ Len(trades) = 2
    /\ trades[1].qty = 1 /\ trades[1].px = Num(1) /\ trades[1].fee = Rat(1001, 10000)
    /\ trades[2].qty = 2 /\ trades[2].px = Num(2) /\ trades[2].fee = Rat(2004, 10000)
    /\ positions["X.A"].fee = Rat(3005, 10000)

\* ---------------------------------------------------------------- C15
\* the sum of the profits of the first k trades that are trades of position i
RECURSIVE ProfitSum(_, _)
ProfitSum(i, k) ==
    IF k = 0 THEN Num(0)
    ELSE IF OrderOf(trades[k].order).position = i
         THEN FAdd(ProfitSum(i, k - 1), trades[k].profit)
         ELSE ProfitSum(i, k - 1)

\* hold_mv / hold_qty of the position of the order the pass is at
AvgCost == FDiv(CurPos.hold_mv, Num(CurPos.hold_qty))

\* the profit the statement gives the fill the step makes
StatedProfit ==
    LET close_qty == Min(Abs(CurPos.hold_qty), CurOrder.pend_qty)
    IN  IF CurOrder.direction = Buy /\ CurPos.hold_qty < 0
        THEN FMul(FSub(AvgCost, NewPx), Num(close_qty))
        ELSE IF CurOrder.direction = Sell /\ CurPos.hold_qty > 0
        THEN FMul(FSub(NewPx, AvgCost), Num(close_qty))
        ELSE Num(0)

\* C15: the profit of a Trade is (avg_cost - p) * close_qty for a buy
\* against a short position and (p - avg_cost) * close_qty for a sell
\* against a long one, with close_qty = min(|hold_qty|, q) and avg_cost =
\* hold_mv / hold_qty before the fill, and 0 when the fill does not oppose
\* the position; real_profit of each position is the sum of the profits of
\* all its Trades.
C15_Profit ==
    /\ [](\A i \in DOMAIN positions :
            positions[i].real_profit = ProfitSum(i, Len(trades)))
    /\ [][FillOrder => trades'[Len(trades')].profit = StatedProfit]_vars

\* a short position of 1 sold at 2 was bought back at 1 with a profit of 1
C15_Witness ==
    /\ Len(trades) = 2
    /\ OrderOf(trades[1].order).direction = Sell
    /\ trades[1].px = Num(2) /\ trades[1].profit = Num(0)
    /\ OrderOf(trades[2].order).direction = Buy
    /\ trades[2].px = Num(1) /\ trades[2].profit = Num(1)
    /\ positions["X.A"].real_profit = Num(1)

\* ---------------------------------------------------------------- C16
\* C16: under NoTrade a fill-attempt event for a good-till-cancel order
\* takes no action: the step of the pass that handles it leaves every field
\* of the order (last_time included), every position, the trade log and the
\* order log unchanged, and notifies the strategy of nothing.
C16_NoActionChangesNothing ==
    [][(/\ InPass
        /\ match_algo = NoTrade
        /\ CurEvent.event_type = FillAttempt
        /\ CurOrder.tif = GTC
        /\ CurOrder.pend_qty > 0)
         => /\ orders' = orders
            /\ positions' = positions
            /\ trades' = trades
            /\ calls' = calls]_vars

\* ---------------------------------------------------------------- C17
\* the pass is at an event that cancels its order: a cancel request for an
\* order with a remaining quantity, or a fill attempt for an
\* immediate-or-cancel order when nothing trades
AtCancellation ==
    /\ InPass
    /\ CurOrder.pend_qty > 0
    /\ \/ CurEvent.event_type = CancelRequest
       \/ /\ CurEvent.event_type = FillAttempt
          /\ match_algo = NoTrade
          /\ CurOrder.tif = IOC

\* C17: a cancellation in a pass sets the order's pend_qty to 0 (nothing
\* else of it but last_time changes), takes exactly the remaining quantity
\* off pending_qty[direction] of the position, sets last_time to the close
\* time of the bar, invokes on_order_cancelled once, creates no Trade and
\* leaves hold_qty, hold_mv, fee and real_profit of the position unchanged.
C17_Cancellation ==
    [][AtCancellation =>
         LET o == CurOrder
             d == o.direction
         IN  /\ orders' = [orders EXCEPT ![o.order_id + 1] =
                              [o EXCEPT !.pend_qty = 0, !.last_time = cur_tm']]
             /\ cur_tm' = cur_tm
             /\ positions' = [positions EXCEPT
                                ![o.position].pending_qty[d] = @ - o.pend_qty]
             /\ trades' = trades
             /\ calls' = calls \o <<[cb |-> "on_order_cancelled", order |-> o.order_id,
                                     ev |-> ev_idx, tm |-> cur_tm]>>
             /\ pc' = "on_order_cancelled"]_vars

\* a cancel request cancelled a good-till-cancel order of 2 in the pass of
\* the second bar, the position holding 1 from an earlier fill
C17_Witness ==
    /\ pc = "on_order_cancelled"
    /\ CurEvent.event_type = CancelRequest
    /\ CurOrder.tif = GTC
    /\ CurOrder.orig_qty = 2
    /\ CurOrder.pend_qty = 0
    /\ CurOrder.insert_time < cur_tm
    /\ CurOrder.last_time = cur_tm
    /\ positions[CurOrder.position].pending_qty[CurOrder.direction] = 0

\* ---------------------------------------------------------------- C18
\* the invocations of on_order_executed and on_order_cancelled for the order
TerminalCalls(id) ==
    {c \in Calls : /\ calls[c].order = id
                   /\ calls[c].cb \in {"on_order_executed", "on_order_cancelled"}}

\* C18: over a whole run every order gets at most one terminal
\* notification: it is never both executed and cancelled, at most one Trade
\* refers to it, and on_order_executed and on_order_cancelled are invoked at
\* most once for it in all, also when a fill attempt and cancel events for
\* the same order are queued in the same pass.
C18_OneTerminalNotification ==
    \A k \in Orders :
        LET id == orders[k].order_id
        IN  /\ Cardinality(TerminalCalls(id)) <= 1
            /\ Cardinality(TradesOf(id)) <= 1
            /\ ~(WasExecuted(id) /\ WasCancelled(id))

\* the fill attempt and a cancel request for the same order were queued in
\* one pass: the order was filled, the request skipped, the pass is over
C18_Witness ==
    /\ pc = "events"
    /\ Len(events) = 2
    /\ ev_idx = 3
    /\ events[1].event_type = FillAttempt
    /\ events[2].event_type = CancelRequest
    /\ events[1].order = events[2].order
    /\ WasExecuted(events[1].order)
    /\ Cardinality(TerminalCalls(events[1].order)) = 1

\* ---------------------------------------------------------------- C19
\* C19: for every position with max_hold_qty >= 0, in every reachable state
\* and under both match algorithms, hold_qty + pending_qty[Buy] <=
\* max_hold_qty and pending_qty[Sell] - hold_qty <= max_hold_qty, both
\* pending quantities being >= 0; hence |hold_qty| <= max_hold_qty.
C19_WithinMaxHold ==
    \A i \in DOMAIN positions :
        positions[i].max_hold_qty >= 0 =>
            /\ positions[i].pending_qty[Buy] >= 0
            /\ positions[i].pending_qty[Sell] >= 0
            /\ positions[i].hold_qty + positions[i].pending_qty[Buy]
                 <= positions[i].max_hold_qty
            /\ positions[i].pending_qty[Sell] - positions[i].hold_qty
                 <= positions[i].max_hold_qty
            /\ Abs(positions[i].hold_qty) <= positions[i].max_hold_qty

\* the position is short at its cap, a sale was refused and a purchase of 2
\* is pending
C19_Witness ==
    /\ positions["X.A"].hold_qty = 0 - positions["X.A"].max_hold_qty
    /\ positions["X.A"].pending_qty[Buy] = 2
    /\ positions["X.A"].pending_qty[Sell] = 0
    /\ Len(orders) = 2
    /\ result = "None"

\* ---------------------------------------------------------------- C20
\* a <= b for two numbers
Leq(a, b) == a[1] * b[2] <= b[1] * a[2]

\* the holding after the first k trades and the prices of the fills that
\* opened it, replayed from the trade log for position i
RECURSIVE Opened(_, _)
Opened(i, k) ==
    IF k = 0 THEN [hold |-> 0, pxs |-> {}]
    ELSE LET prev == Opened(i, k - 1)
             d == OrderOf(trades[k].order).direction
             q == trades[k].qty
             c == ClosedQty(prev.hold, d, q)
             h == IF d = Buy THEN prev.hold + q ELSE prev.hold - q
         IN  IF OrderOf(trades[k].order).position # i THEN prev
             ELSE [hold |-> h,
                   pxs |-> IF h = 0 THEN {}
                           ELSE IF c = 0 THEN prev.pxs \cup {trades[k].px}
                           ELSE IF c < q THEN {trades[k].px}
                           ELSE prev.pxs]

\* C20: with strictly positive bar prices hold_mv has the sign of hold_qty
\* (positive when long, negative when short, 0 when flat), so the average
\* cost hold_mv / hold_qty of an open position is positive and lies between
\* the lowest and the highest price of the fills that opened it.
C20_SignAndAvgCost ==
    \A i \in DOMAIN positions :
        LET h == positions[i].hold_qty
            mv == positions[i].hold_mv
            avg == FDiv(mv, Num(h))
            op == Opened(i, Len(trades))
        IN  /\ ~IsNaN(mv)
            /\ op.hold = h
            /\ h > 0 => mv[1] > 0
            /\ h < 0 => mv[1] < 0
            /\ h = 0 => mv = Num(0)
            /\ h # 0 =>
                /\ avg[1] > 0 /\ avg[2] > 0
                /\ \E lo \in op.pxs : Leq(lo, avg)
                /\ \E hi \in op.pxs : Leq(avg, hi)
                /\ \A px \in op.pxs : px[1] > 0 /\ px[2] = 1

\* a short position of 2 was opened by a sale of 1 at 1 and a sale of 1 at
\* 2: hold_mv = -3, the average cost 3/2 lies between the two prices
C20_Witness ==
    /\ positions["X.A"].hold_qty = 0 - 2
    /\ positions["X.A"].hold_mv = Num(0 - 3)
    /\ Opened("X.A", Len(trades)).pxs = {Num(1), Num(2)}
    /\ FDiv(positions["X.A"].hold_mv, Num(positions["X.A"].hold_qty)) = Rat(3, 2)

====
